---- MODULE Spec2Model ----
(***************************************************************************)
(* Verification model of kaizen-dedup-fix:                                 *)
(*   - the two-tier message dedup of src/dedup/persistent-dedup.ts and its *)
(*     table src/dedup/schema.sql (specification Spec),                    *)
(*   - the stopped-agent guards of stopped-agent-guard.ts                  *)
(*     (specifications GuardSpec and FilterSpec),                          *)
(*   - a lock-step pair of dedup runs, one that keeps its in-memory cache  *)
(*     and one that may lose it (specification TwinSpec),                  *)
(*   - the content hashes, patch.js, message delivery, the patched bundle  *)
(*     and scheduler, and the cache at its capacity (HashSpec, PatchSpec,  *)
(*     DeliverySpec, BundleSpec, SchedSpec, LruSpec).                      *)
(* Instants are milliseconds.  The program's constants keep their values;  *)
(* the clock jumps between the multiples of the TTL and the millisecond    *)
(* after each, so that the <= / < boundaries of the code are hit exactly.  *)
(***************************************************************************)
EXTENDS Integers, Sequences, FiniteSets, TLC

VARIABLES
    now,        \* Date.now() / NOW(): one clock for the processes and the store
    db,         \* rows of table message_dedup
    dbReg,      \* per process: _db !== null
    cache,      \* per process: inMemoryCache, in Map insertion order
    calls,      \* checkAndRecordDedup calls suspended at their await
    log,        \* finished checkAndRecordDedup calls, in order of completion
    agentStatus,\* agent directory: id -> status, or Absent
    recon,      \* the safeReconcileOnStartup call
    gstart,     \* the guardedStartAgent call
    coreCalls,  \* updateAgentStatus / startAgent invocations made by the core
    fda,        \* the filterDispatchableAgents call
    twin,       \* the lock-step pair of dedup runs
    maint,      \* the pruneExpiredDedup / loadStartupDedupGuard call just returned
    hasher,     \* two contents and the hashes computed for them
    patcher,    \* the file patch.js rewrites, and the runs of the script
    messages,   \* rows of table messages, in insertion order
    sends,      \* the deliveries asked for: handler and sendMessageToAgent calls
    bundle,     \* the patched bundle: its message_dedup table and routing checks
    lru,        \* a process whose cache is filled to its capacity
    sched       \* the patched scheduler: pickAssignee and the restart resume

dedupVars == <<db, dbReg, cache, calls, log>>
guardVars == <<agentStatus, recon, gstart, coreCalls>>
moreVars == <<bundle, lru, sched>>
toolVars == <<hasher, patcher, messages, sends, moreVars>>
vars == <<now, db, dbReg, cache, calls, log,
          agentStatus, recon, gstart, coreCalls, fda, twin, maint, toolVars>>

(***************************************************************************)
(* Program constants                                                       *)
(***************************************************************************)
ROUTING_DEDUP_TTL_MS == 72 * 60 * 60 * 1000
ROUTING_DEDUP_MAX_KEYS == 10000

(***************************************************************************)
(* Bounds of the model                                                     *)
(***************************************************************************)
MaxInstant == 2    \* the clock visits the instants 0..MaxInstant of Times
MaxCalls == 2      \* checkAndRecordDedup calls per behaviour
MaxListLen == 3    \* length of the lists given to filterDispatchableAgents
MaxContentLen == 4 \* characters of a message content
MaxRuns == 2       \* runs of patch.js on the target file
MaxSends == 2      \* deliveries asked for per behaviour
MaxBacklogs == 1   \* bursts of other messages delivered to an agent
MaxBursts == 1     \* bursts of fingerprints recorded by other processes

\* the instants 0, TTL, TTL+1, 2*TTL, 2*TTL+1, ... : each multiple of the
\* TTL and the millisecond after it
Instant(n) ==
    IF n = 0 THEN 0
    ELSE ((n + 1) \div 2) * ROUTING_DEDUP_TTL_MS + ((n + 1) % 2)
Times == {Instant(n) : n \in 0..MaxInstant}
TtlChoices == {ROUTING_DEDUP_TTL_MS}
\* a caller's ttlMs longer than the default as well
TtlChoicesLong == {ROUTING_DEDUP_TTL_MS, 2 * ROUTING_DEDUP_TTL_MS}

NULL == "null"
Procs == {"p1"}
AllProcs == {"p1", "p2"}
FromIds == {"a1"}
ToIds == {"a2"}
Hashes == {"h1"}
TaskIds == {NULL, "t1"}
Seqs == {NULL}
Metas == [taskId : TaskIds, eventHash : Hashes, seq : Seqs]
\* a wider choice of requests: two content hashes, and the empty string as a
\* task id (taskId is `string | null`)
MetasWide == [taskId : {NULL, ""}, eventHash : {"h1", "h2"}, seq : Seqs]
\* requests that differ in content only
MetasPrune == [taskId : {NULL}, eventHash : {"h1", "h2"}, seq : Seqs]

(***************************************************************************)
(* In-memory L1 cache: a Map, modelled as the sequence of its entries in   *)
(* insertion order.                                                        *)
(***************************************************************************)
CacheHas(c, key) == \E n \in DOMAIN c : c[n].key = key

CacheGet(c, key) == c[CHOOSE n \in DOMAIN c : c[n].key = key].seenAt

\* Map.set: an existing key keeps its position, a new key goes last
CacheSet(c, key, seenAt) ==
    IF CacheHas(c, key)
    THEN [n \in DOMAIN c |-> IF c[n].key = key
                             THEN [key |-> key, seenAt |-> seenAt] ELSE c[n]]
    ELSE Append(c, [key |-> key, seenAt |-> seenAt])

RECURSIVE EvictOverLimit(_)
EvictOverLimit(c) ==
    IF Len(c) > ROUTING_DEDUP_MAX_KEYS THEN EvictOverLimit(Tail(c)) ELSE c

NotAged(nowMs, e) == ~(nowMs - e.seenAt > ROUTING_DEDUP_TTL_MS)

evictExpired(c, nowMs) ==
    EvictOverLimit(SelectSeq(c, LAMBDA e : NotAged(nowMs, e)))

Coalesce(v) == IF v = NULL THEN "none" ELSE v

buildDedupKey(fromAgentId, toAgentId, meta) ==
    <<fromAgentId, toAgentId, Coalesce(meta.taskId), meta.eventHash,
      Coalesce(meta.seq)>>

(***************************************************************************)
(* Content hashing.  A content is the sequence of its characters; SHA-256  *)
(* is taken to be collision-free, so a digest is modelled by the string    *)
(* that was hashed.                                                        *)
(***************************************************************************)
Whitespace == {" ", "\t"}
Chars == {"a"} \cup Whitespace
Contents == UNION {[1..n -> Chars] : n \in 0..MaxContentLen}

IsSpace(ch) == ch \in Whitespace

RECURSIVE SkipSpaces(_)
SkipSpaces(s) ==
    IF s # <<>> /\ IsSpace(Head(s)) THEN SkipSpaces(Tail(s)) ELSE s

\* content.replace(/\s+/g, " ")
RECURSIVE CollapseWhitespace(_)
CollapseWhitespace(s) ==
    IF s = <<>> THEN <<>>
    ELSE IF IsSpace(Head(s))
         THEN <<" ">> \o CollapseWhitespace(SkipSpaces(Tail(s)))
         ELSE <<Head(s)>> \o CollapseWhitespace(Tail(s))

RECURSIVE DropTrailingSpaces(_)
DropTrailingSpaces(s) ==
    IF s # <<>> /\ IsSpace(s[Len(s)])
    THEN DropTrailingSpaces(SubSeq(s, 1, Len(s) - 1)) ELSE s

\* String.prototype.trim
Trim(s) == DropTrailingSpaces(SkipSpaces(s))

\* createHash("sha256").update(text).digest("hex")
Sha256Hex(text) == <<"sha256", text>>

\* persistent-dedup.ts: the digest of the content as given, first 32 digits
hashContent(content) == <<"slice(0, 32)", Sha256Hex(content)>>

\* message-dedup.ts: the digest of `${toAgentId}::${normalized}`
computeMessageHash(toAgentId, content) ==
    Sha256Hex(<<toAgentId, "::", Trim(CollapseWhitespace(content))>>)

(***************************************************************************)
(* Durable tier: table message_dedup with its unique index                 *)
(* idx_message_dedup_route_hash(from_agent_id, to_agent_id, content_hash). *)
(***************************************************************************)
RouteHash(r) == <<r.from_agent_id, r.to_agent_id, r.content_hash>>

\* mutant of InsertOnConflictDoNothing: the table without its unique index
InsertWithoutIndex(table, row) ==
    [table |-> table \cup {row}, rows |-> 1]

\* INSERT ... ON CONFLICT (from_agent_id, to_agent_id, content_hash)
\* DO NOTHING RETURNING id : the table afterwards and the number of rows
InsertOnConflictDoNothing(table, row) ==
    IF \E r \in table : RouteHash(r) = RouteHash(row)
    THEN [table |-> table, rows |-> 0]
    ELSE [table |-> table \cup {row}, rows |-> 1]

\* VALUES ($1, ..., $6, NOW(), $7) with $7 = new Date(nowMs + ttlMs)
DedupRow(c, dbNow) ==
    [from_agent_id |-> c.from, to_agent_id |-> c.to,
     content_hash |-> c.meta.eventHash,
     task_id |-> c.meta.taskId, seq |-> c.meta.seq,
     seen_at |-> dbNow, expires_at |-> c.nowMs + c.ttlMs]

\* mutant of PruneDelete: WHERE expires_at <= NOW()
PruneDeleteEager(table, dbNow) == {r \in table : ~(r.expires_at <= dbNow)}

\* DELETE FROM message_dedup WHERE expires_at < NOW()
PruneDelete(table, dbNow) == {r \in table : ~(r.expires_at < dbNow)}

(***************************************************************************)
(* Maintenance calls (pruneExpiredDedup, loadStartupDedupGuard) leave a    *)
(* record of their return for the step that follows them.                  *)
(***************************************************************************)
\* the maintenance call that has just returned: the process, the window it
\* was given, how it ended (outcome "resolved" or "rejected"; path "ok",
\* "catch" for a query that rejected, "noadapter" for getDb() throwing) and
\* the number it returned or logged
MaintCall(fn, p, windowMs, path, value) ==
    [fn |-> fn, proc |-> p, window |-> windowMs, path |-> path,
     outcome |-> IF path = "noadapter" THEN "rejected" ELSE "resolved",
     value |-> value]

NoMaint == [fn |-> "none", proc |-> "", window |-> 0, path |-> "",
            outcome |-> "", value |-> 0]

(***************************************************************************)
(* checkAndRecordDedup, in its two atomic segments: the synchronous part   *)
(* up to the await (CheckStart), and the INSERT executed by the store      *)
(* together with the continuation that its response resumes (CheckFinish). *)
(***************************************************************************)
Started == Len(log) + Cardinality(calls)

NewCall(p, fromAgentId, toAgentId, meta, ttlMs) ==
    [id |-> CHOOSE n \in 1..MaxCalls : \A c \in calls : c.id # n,
     proc |-> p, from |-> fromAgentId, to |-> toAgentId, meta |-> meta,
     ttlMs |-> ttlMs, nowMs |-> now, after |-> Len(log)]

\* the record of a finished call: its inputs, the clock it read (nowMs), the
\* number of calls finished before it started (after), the instant it
\* finished (doneAt), what it returned (res: "new" for isDuplicate=false,
\* "dup" for isDuplicate=true, "threw" for a rejected promise, "lost" for a
\* call cut off by a restart), which tier decided (tier), and whether the
\* process has kept its in-memory cache since (kept)
Finished(c, res, tier) ==
    [proc |-> c.proc, from |-> c.from, to |-> c.to, meta |-> c.meta,
     ttlMs |-> c.ttlMs, nowMs |-> c.nowMs, after |-> c.after,
     doneAt |-> now, res |-> res, tier |-> tier, kept |-> TRUE]

\* mutant of L1Hit: the window test written with < instead of <=
L1HitStrict(c, key, nowMs, ttlMs) ==
    CacheHas(c, key) /\ nowMs - CacheGet(c, key) < ttlMs

\* L1 fast path: seenAt !== undefined && nowMs - seenAt <= ttlMs
L1Hit(c, key, nowMs, ttlMs) ==
    CacheHas(c, key) /\ nowMs - CacheGet(c, key) <= ttlMs

\* mutant of HitCache: the hit path refreshing the entry it found
HitCacheRefreshed(swept, key, nowMs) == CacheSet(swept, key, nowMs)

\* the cache the L1 hit path leaves: the swept Map, no inMemoryCache.set
HitCache(swept, key, nowMs) == swept

\* getDb(): throws when no adapter is registered; the call is outside the try
GetDbThrows(p) == ~dbReg[p]

CheckStart(p, fromAgentId, toAgentId, meta, ttlMs) ==
    /\ Started < MaxCalls
    /\ LET c == NewCall(p, fromAgentId, toAgentId, meta, ttlMs)
           key == buildDedupKey(fromAgentId, toAgentId, meta)
           swept == evictExpired(cache[p], now)
       IN  /\ IF L1Hit(swept, key, now, ttlMs)
              THEN /\ cache' = [cache EXCEPT ![p] = HitCache(swept, key, now)]
                   /\ log' = Append(log, Finished(c, "dup", "L1"))
                   /\ calls' = calls
              ELSE IF GetDbThrows(p)
              THEN /\ cache' = [cache EXCEPT ![p] = swept]
                   /\ log' = Append(log, Finished(c, "threw", "noadapter"))
                   /\ calls' = calls
              ELSE /\ cache' = [cache EXCEPT ![p] = swept]
                   /\ calls' = calls \cup {c}
                   /\ log' = log
    /\ maint' = NoMaint
    /\ UNCHANGED <<now, db, dbReg, guardVars, fda, twin, toolVars>>

\* what the continuation stores in the L1 cache for the key, on each of its
\* three paths (conflict, inserted, catch): inMemoryCache.set(key, nowMs)
WarmSeenAt(c, table) == c.nowMs

\* the store executes the statement (ok) or the query rejects (~ok), and the
\* continuation runs
CheckFinish(c, ok) ==
    /\ c \in calls
    /\ LET ins == InsertOnConflictDoNothing(db, DedupRow(c, now))
           key == buildDedupKey(c.from, c.to, c.meta)
       IN  /\ db' = IF ok THEN ins.table ELSE db
           /\ cache' = [cache EXCEPT
                          ![c.proc] = CacheSet(@, key, WarmSeenAt(c, db))]
           /\ log' = Append(log, Finished(c,
                        IF ok /\ ins.rows = 0 THEN "dup" ELSE "new",
                        IF ok THEN "db" ELSE "error"))
    /\ calls' = calls \ {c}
    /\ maint' = NoMaint
    /\ UNCHANGED <<now, dbReg, guardVars, fda, twin, toolVars>>

registerDbAdapter(p) ==
    /\ ~dbReg[p]
    /\ dbReg' = [dbReg EXCEPT ![p] = TRUE]
    /\ maint' = NoMaint
    /\ UNCHANGED <<now, db, cache, calls, log, guardVars, fda, twin, toolVars>>

(***************************************************************************)
(* Process restart: module state is re-created (_db = null, empty Map).    *)
(* Suspended calls never return; the statement each of them sent may or    *)
(* may not have been executed by the store.                                *)
(***************************************************************************)
RECURSIVE SetToSeq(_)
SetToSeq(S) ==
    IF S = {} THEN <<>>
    ELSE LET x == CHOOSE y \in S : \A z \in S : y.id <= z.id
         IN  <<x>> \o SetToSeq(S \ {x})

RECURSIVE InsertAll(_, _)
InsertAll(table, cs) ==
    IF cs = <<>> THEN table
    ELSE InsertAll(InsertOnConflictDoNothing(table, DedupRow(Head(cs), now)).table,
                   Tail(cs))

Restart(p) ==
    /\ cache' = [cache EXCEPT ![p] = <<>>]
    /\ dbReg' = [dbReg EXCEPT ![p] = FALSE]
    /\ LET mine == {c \in calls : c.proc = p}
           cut == SetToSeq(mine)
           lost == [n \in DOMAIN cut |-> Finished(cut[n], "lost", "none")]
           aged == [n \in DOMAIN log |->
                      IF log[n].proc = p THEN [log[n] EXCEPT !.kept = FALSE]
                      ELSE log[n]]
       IN  /\ calls' = calls \ mine
           /\ log' = aged \o [n \in DOMAIN lost |-> [lost[n] EXCEPT !.kept = FALSE]]
           /\ \E done \in SUBSET mine : db' = InsertAll(db, SetToSeq(done))
    /\ <<cache', dbReg', log'>> # <<cache, dbReg, log>>
    /\ maint' = NoMaint
    /\ UNCHANGED <<now, guardVars, fda, twin, toolVars>>

(***************************************************************************)
(* pruneExpiredDedup and loadStartupDedupGuard                             *)
(***************************************************************************)
\* getDb() is called before the try: with no adapter registered the call
\* rejects; the DELETE runs (ok) or the query rejects (~ok) and 0 is returned
pruneExpiredDedup(p, ok) ==
    /\ LET kept == PruneDelete(db, now)
       IN  IF GetDbThrows(p)
           THEN /\ db' = db
                /\ maint' = MaintCall("pruneExpiredDedup", p, 0, "noadapter", 0)
           ELSE IF ok
           THEN /\ db' = kept
                /\ maint' = MaintCall("pruneExpiredDedup", p, 0, "ok",
                                      Cardinality(db \ kept))
           ELSE /\ db' = db
                /\ maint' = MaintCall("pruneExpiredDedup", p, 0, "catch", 0)
    /\ UNCHANGED <<now, dbReg, cache, calls, log, guardVars, fda, twin, toolVars>>

LOAD_LIMIT == 20000

\* WHERE expires_at > NOW() AND seen_at > $1
LoadSelect(table, dbNow, windowStart) ==
    {r \in table : r.expires_at > dbNow /\ r.seen_at > windowStart}

\* ORDER BY seen_at DESC (ties in any order) LIMIT 20000
IsLoadOrder(rows, S) ==
    /\ Len(rows) = Cardinality(S)
    /\ {rows[n] : n \in DOMAIN rows} = S
    /\ \A m, n \in DOMAIN rows : m < n => rows[m].seen_at >= rows[n].seen_at

Limit(rows) ==
    IF Len(rows) > LOAD_LIMIT THEN SubSeq(rows, 1, LOAD_LIMIT) ELSE rows

\* row.task_id ? String(row.task_id) : null
Falsy(v) == v = NULL \/ v = ""

RowKey(r) ==
    buildDedupKey(r.from_agent_id, r.to_agent_id,
                  [eventHash |-> r.content_hash,
                   taskId |-> IF Falsy(r.task_id) THEN NULL ELSE r.task_id,
                   seq |-> IF Falsy(r.seq) THEN NULL ELSE r.seq])

RECURSIVE LoadRows(_, _)
LoadRows(c, rows) ==
    IF rows = <<>> THEN c
    ELSE LoadRows(CacheSet(c, RowKey(Head(rows)), Head(rows).seen_at), Tail(rows))

\* getDb() is called before the try: with no adapter registered the call
\* rejects; the SELECT runs (ok) and its rows are set in the cache, or the
\* query rejects (~ok) and the catch leaves the cache alone
loadStartupDedupGuard(p, windowMs, ok) ==
    /\ LET S == LoadSelect(db, now, now - windowMs)
       IN  IF GetDbThrows(p)
           THEN /\ cache' = cache
                /\ maint' = MaintCall("loadStartupDedupGuard", p, windowMs, "noadapter", 0)
           ELSE IF ok
           THEN \E rows \in [1..Cardinality(S) -> S] :
                   /\ IsLoadOrder(rows, S)
                   /\ cache' = [cache EXCEPT ![p] = LoadRows(@, Limit(rows))]
                   /\ maint' = MaintCall("loadStartupDedupGuard", p, windowMs,
                                         "ok", Len(Limit(rows)))
           ELSE /\ cache' = cache
                /\ maint' = MaintCall("loadStartupDedupGuard", p, windowMs, "catch", 0)
    /\ UNCHANGED <<now, db, dbReg, calls, log, guardVars, fda, twin, toolVars>>

Tick ==
    /\ \E t \in Times : t > now /\ now' = t
    /\ maint' = NoMaint
    /\ UNCHANGED <<dedupVars, guardVars, fda, twin, toolVars>>


(***************************************************************************)
(* Stopped-agent guards (stopped-agent-guard.ts)                           *)
(***************************************************************************)
AgentIds == {"g1", "g2"}
Statuses == {"idle", "thinking", "executing", "error", "stopped"}
Absent == "absent"

\* AgentLight: id, name, status
NameOf(id) == <<"name", id>>
AgentLight(id, status) == [id |-> id, name |-> NameOf(id), status |-> status]

\* mutant of isDispatchable: agents in error filtered out as well
isDispatchableStrict(a) == a.status \notin {"stopped", "error"}

\* Guard 1: agents.filter((a) => a.status !== "stopped")
isDispatchable(a) == a.status # "stopped"

filterDispatchableAgents(agents) == SelectSeq(agents, isDispatchable)

\* the console.log of filterDispatchableAgents: the `name(id)` of the removed
\* agents, or nothing when removedCount = 0
FilterLogNames(agents) ==
    LET removed == SelectSeq(agents, LAMBDA a : a.status = "stopped")
    IN  [n \in DOMAIN removed |-> <<removed[n].name, removed[n].id>>]

\* Guard 2: safeReconcileOnStartup
\* mutant of staleStatuses: agents in error reset as well
staleStatusesWithError == {"thinking", "executing", "error"}

staleStatuses == {"thinking", "executing"}

\* mutant of ReconSkips: the loop without its explicit stopped guard
ReconSkipsNothing(agent) == FALSE

ReconSkips(agent) == agent.status = "stopped"

\* the for loop from agent k on, up to its next await or its end: stopped
\* agents are pushed to skipped, agents that are not stale are passed over
RECURSIVE ReconScan(_, _, _)
ReconScan(agents, k, skipped) ==
    IF k > Len(agents) THEN [k |-> k, skipped |-> skipped]
    ELSE IF ReconSkips(agents[k])
         THEN ReconScan(agents, k + 1, Append(skipped, agents[k].id))
    ELSE IF agents[k].status \notin staleStatuses
         THEN ReconScan(agents, k + 1, skipped)
    ELSE [k |-> k, skipped |-> skipped]

CoreCall(fn, id, arg) ==
    [fn |-> fn, id |-> id, arg |-> arg, current |-> agentStatus[id]]

\* runs the loop from agent k: either it ends (the result is returned) or it
\* reaches `await updateAgentStatus(agent.id, "idle")`
ReconRun(agents, k, reset, skipped) ==
    LET scan == ReconScan(agents, k, skipped)
    IN  IF scan.k > Len(agents)
        THEN /\ recon' = [pc |-> "done", agents |-> agents, k |-> scan.k,
                          reset |-> reset, skipped |-> scan.skipped]
             /\ coreCalls' = coreCalls
        ELSE /\ recon' = [pc |-> "update", agents |-> agents, k |-> scan.k,
                          reset |-> reset, skipped |-> scan.skipped]
             /\ coreCalls' = coreCalls \cup
                   {CoreCall("updateAgentStatus", agents[scan.k].id, "idle")}

\* the lists a caller can pass: any listing of distinct agents of the
\* directory, each with the status the directory holds when it is fetched
Listings ==
    LET present == {id \in AgentIds : agentStatus[id] # Absent}
    IN  {l \in UNION {[1..n -> present] : n \in 0..Cardinality(present)} :
            \A m, n \in DOMAIN l : m # n => l[m] # l[n]}

Fetched(l) == [n \in DOMAIN l |-> AgentLight(l[n], agentStatus[l[n]])]

ReconcileStart(l) ==
    /\ recon.pc = "idle"
    /\ ReconRun(Fetched(l), 1, <<>>, <<>>)
    /\ UNCHANGED <<now, dedupVars, agentStatus, gstart, fda, twin, maint, toolVars>>

\* updateAgentStatus(id, "idle") takes effect and resolves, or rejects; on
\* success the continuation reaches `await insertActivity(...)`
UpdateStatusReturns(ok) ==
    /\ recon.pc = "update"
    /\ LET agent == recon.agents[recon.k]
       IN  IF ok
           THEN /\ agentStatus' = [agentStatus EXCEPT ![agent.id] = "idle"]
                /\ recon' = [recon EXCEPT !.pc = "activity"]
                /\ coreCalls' = coreCalls \cup
                      {CoreCall("insertActivity", agent.id, agent.status)}
           ELSE /\ recon' = [recon EXCEPT !.pc = "threw"]
                /\ UNCHANGED <<agentStatus, coreCalls>>
    /\ UNCHANGED <<now, dedupVars, gstart, fda, twin, maint, toolVars>>

\* insertActivity resolves (the agent is pushed to reset and the loop goes
\* on) or rejects
InsertActivityReturns(ok) ==
    /\ recon.pc = "activity"
    /\ IF ok
       THEN ReconRun(recon.agents, recon.k + 1,
                     Append(recon.reset, recon.agents[recon.k].id),
                     recon.skipped)
       ELSE /\ recon' = [recon EXCEPT !.pc = "threw"]
            /\ coreCalls' = coreCalls
    /\ UNCHANGED <<now, dedupVars, agentStatus, gstart, fda, twin, maint, toolVars>>

\* Guard 3: guardedStartAgent
\* mutant of GuardRefuses: guardedStartAgent without its stopped check
GuardRefusesNothing(agent) == FALSE

GuardRefuses(agent) == agent.status = "stopped"

NoCall == [pc |-> "idle", id |-> "", agent |-> <<>>, startCalls |-> 0,
           started |-> "", result |-> <<>>]

GuardedStartCall(agentId) ==
    /\ gstart.pc = "idle"
    /\ gstart' = [NoCall EXCEPT !.pc = "fetch", !.id = agentId]
    /\ UNCHANGED <<now, dedupVars, agentStatus, recon, coreCalls, fda, twin, maint, toolVars>>

\* getAgent(agentId) reads the directory
GetAgentReads ==
    /\ gstart.pc = "fetch"
    /\ gstart' = [gstart EXCEPT
                    !.pc = "fetched",
                    !.agent = IF agentStatus[gstart.id] = Absent THEN <<>>
                              ELSE <<AgentLight(gstart.id, agentStatus[gstart.id])>>]
    /\ UNCHANGED <<now, dedupVars, agentStatus, recon, coreCalls, fda, twin, maint, toolVars>>

\* the continuation after `await getAgent`: the two throws, or the call of
\* startAgent(agentId)
GuardedStartContinues ==
    /\ gstart.pc = "fetched"
    /\ IF gstart.agent = <<>>
       THEN /\ gstart' = [gstart EXCEPT !.pc = "done",
                            !.result = <<"not found", gstart.id>>]
            /\ coreCalls' = coreCalls
       ELSE IF GuardRefuses(gstart.agent[1])
       THEN /\ gstart' = [gstart EXCEPT !.pc = "done",
                            !.result = <<"refusing to start stopped agent",
                                         gstart.agent[1].name, gstart.id>>]
            /\ coreCalls' = coreCalls
       ELSE /\ gstart' = [gstart EXCEPT !.pc = "start",
                            !.startCalls = @ + 1]
            /\ coreCalls' = coreCalls \cup {CoreCall("startAgent", gstart.id, "")}
    /\ UNCHANGED <<now, dedupVars, agentStatus, recon, fda, twin, maint, toolVars>>

\* startAgent(agentId) resolves, the agent running again, or rejects; its
\* outcome is the outcome of guardedStartAgent
StartAgentReturns(ok) ==
    /\ gstart.pc = "start"
    /\ LET outcome == IF ok THEN "resolved" ELSE "rejected"
       IN  gstart' = [gstart EXCEPT !.pc = "done", !.started = outcome,
                        !.result = <<"startAgent", outcome>>]
    /\ agentStatus' = IF ok THEN [agentStatus EXCEPT ![gstart.id] = "idle"]
                      ELSE agentStatus
    /\ UNCHANGED <<now, dedupVars, recon, coreCalls, fda, twin, maint, toolVars>>

\* the operator stops an agent (outside the core)
OperatorStops(id) ==
    /\ agentStatus[id] \notin {Absent, "stopped"}
    /\ agentStatus' = [agentStatus EXCEPT ![id] = "stopped"]
    /\ UNCHANGED <<now, dedupVars, recon, gstart, coreCalls, fda, twin, maint, toolVars>>

NoRecon == [pc |-> "idle", agents |-> <<>>, k |-> 0, reset |-> <<>>,
            skipped |-> <<>>]

NoFilter == [pc |-> "idle", agents |-> <<>>, given |-> <<>>, out |-> <<>>,
             logged |-> <<>>]

NoHash == [pc |-> "idle", to |-> "", first |-> <<>>, second |-> <<>>,
           contentHash |-> <<>>, messageHash |-> <<>>]

NoPatcher == [file |-> <<>>, runs |-> <<>>]

NoBundle == [table |-> {}, calls |-> {}, log |-> <<>>]

NoLru == [cache |-> <<>>, table |-> {}, bursts |-> 0, checks |-> 0,
          sweeps |-> <<>>]

NoSched == [agents |-> <<>>, roles |-> <<>>, tasks |-> <<>>,
            pickDone |-> FALSE, picked |-> <<>>,
            resumeDone |-> FALSE, resumes |-> <<>>]

InitMore ==
    /\ bundle = NoBundle
    /\ lru = NoLru
    /\ sched = NoSched

InitTools ==
    /\ maint = NoMaint
    /\ hasher = NoHash
    /\ patcher = NoPatcher
    /\ messages = <<>>
    /\ sends = <<>>
    /\ InitMore

NoTwin == [cacheA |-> <<>>, dbA |-> {}, cacheB |-> <<>>, dbB |-> {},
           resA |-> "", resB |-> ""]

InitDedup ==
    /\ now = 0
    /\ db = {}
    /\ dbReg = [p \in AllProcs |-> FALSE]
    /\ cache = [p \in AllProcs |-> <<>>]
    /\ calls = {}
    /\ log = <<>>

InitGuard ==
    /\ recon = NoRecon
    /\ gstart = NoCall
    /\ coreCalls = {}

Init ==
    /\ InitDedup
    /\ agentStatus = [id \in AgentIds |-> Absent]
    /\ InitGuard
    /\ fda = NoFilter
    /\ twin = NoTwin
    /\ InitTools

\* one process and the durable store
Next ==
    \/ \E p \in Procs, f \in FromIds, t \in ToIds, m \in Metas, ttl \in TtlChoices :
          CheckStart(p, f, t, m, ttl)
    \/ \E c \in calls, ok \in BOOLEAN : CheckFinish(c, ok)
    \/ \E p \in Procs : registerDbAdapter(p)
    \/ \E p \in Procs : Restart(p)
    \/ \E p \in Procs : pruneExpiredDedup(p, TRUE)
    \/ \E p \in Procs : loadStartupDedupGuard(p, ROUTING_DEDUP_TTL_MS, TRUE)
    \/ Tick

Spec == Init /\ [][Next]_vars

\* one process and the durable store, the wider choice of requests, the
\* store answering every INSERT
WideNext ==
    \/ \E p \in Procs, f \in FromIds, t \in ToIds, m \in MetasWide,
          ttl \in TtlChoices :
          CheckStart(p, f, t, m, ttl)
    \/ \E c \in calls : CheckFinish(c, TRUE)
    \/ \E p \in Procs : registerDbAdapter(p)
    \/ \E p \in Procs : Restart(p)
    \/ \E p \in Procs, ok \in BOOLEAN : pruneExpiredDedup(p, ok)
    \/ \E p \in Procs, ok \in BOOLEAN :
          loadStartupDedupGuard(p, ROUTING_DEDUP_TTL_MS, ok)
    \/ Tick

WideSpec == Init /\ [][WideNext]_vars

\* one process and the durable store, requests that differ in content: the
\* operations that write the store, and the prune with either outcome of its
\* DELETE
PruneNext ==
    \/ \E p \in Procs, f \in FromIds, t \in ToIds, m \in MetasPrune,
          ttl \in TtlChoices :
          CheckStart(p, f, t, m, ttl)
    \/ \E c \in calls : CheckFinish(c, TRUE)
    \/ \E p \in Procs : registerDbAdapter(p)
    \/ \E p \in Procs, ok \in BOOLEAN : pruneExpiredDedup(p, ok)
    \/ Tick

PruneSpec == Init /\ [][PruneNext]_vars

\* one process and the durable store, callers giving the default ttlMs or a
\* longer one
TtlNext ==
    \/ \E p \in Procs, f \in FromIds, t \in ToIds, m \in Metas,
          ttl \in TtlChoicesLong :
          CheckStart(p, f, t, m, ttl)
    \/ \E c \in calls, ok \in BOOLEAN : CheckFinish(c, ok)
    \/ \E p \in Procs : registerDbAdapter(p)
    \/ Tick

TtlSpec == Init /\ [][TtlNext]_vars

\* two processes sharing the durable store (restart and rehydration are
\* exercised by Spec, a failing maintenance query by WideSpec)
ClusterNext ==
    \/ \E p \in AllProcs, f \in FromIds, t \in ToIds, m \in Metas, ttl \in TtlChoices :
          CheckStart(p, f, t, m, ttl)
    \/ \E c \in calls, ok \in BOOLEAN : CheckFinish(c, ok)
    \/ \E p \in AllProcs : registerDbAdapter(p)
    \/ \E p \in AllProcs : pruneExpiredDedup(p, TRUE)
    \/ Tick

ClusterSpec == Init /\ [][ClusterNext]_vars

\* the guards, an operator stopping agents at any moment
GuardInit ==
    /\ InitDedup
    /\ agentStatus \in [AgentIds -> Statuses \cup {Absent}]
    /\ InitGuard
    /\ fda = NoFilter
    /\ twin = NoTwin
    /\ InitTools

GuardNext ==
    \/ \E l \in Listings : ReconcileStart(l)
    \/ \E ok \in BOOLEAN : UpdateStatusReturns(ok)
    \/ \E ok \in BOOLEAN : InsertActivityReturns(ok)
    \/ \E id \in AgentIds : GuardedStartCall(id)
    \/ GetAgentReads
    \/ GuardedStartContinues
    \/ \E ok \in BOOLEAN : StartAgentReturns(ok)
    \/ \E id \in AgentIds : OperatorStops(id)

GuardSpec == GuardInit /\ [][GuardNext]_vars

(***************************************************************************)
(* filterDispatchableAgents on any list                                    *)
(***************************************************************************)
AgentLights == {AgentLight(id, st) : id \in AgentIds, st \in Statuses}
AgentLists == UNION {[1..n -> AgentLights] : n \in 0..MaxListLen}

FilterCall ==
    /\ fda.pc = "idle"
    /\ fda' = [fda EXCEPT !.pc = "done",
                 !.out = filterDispatchableAgents(fda.agents),
                 !.logged = FilterLogNames(fda.agents)]
    /\ UNCHANGED <<now, dedupVars, agentStatus, guardVars, twin, maint, toolVars>>

FilterInit ==
    /\ InitDedup
    /\ agentStatus = [id \in AgentIds |-> Absent]
    /\ InitGuard
    /\ \E l \in AgentLists : fda = [NoFilter EXCEPT !.agents = l, !.given = l]
    /\ twin = NoTwin
    /\ InitTools

FilterNext == FilterCall

FilterSpec == FilterInit /\ [][FilterNext]_vars

(***************************************************************************)
(* The two content hashes applied to any pair of contents                  *)
(***************************************************************************)
HashContents ==
    /\ hasher.pc = "idle"
    /\ hasher' = [hasher EXCEPT
                    !.pc = "done",
                    !.contentHash = <<hashContent(hasher.first),
                                      hashContent(hasher.second)>>,
                    !.messageHash = <<computeMessageHash(hasher.to, hasher.first),
                                      computeMessageHash(hasher.to, hasher.second)>>]
    /\ UNCHANGED <<now, dedupVars, agentStatus, guardVars, fda, twin, maint,
                   patcher, messages, sends, moreVars>>

HashInit ==
    /\ InitDedup
    /\ agentStatus = [id \in AgentIds |-> Absent]
    /\ InitGuard
    /\ fda = NoFilter
    /\ twin = NoTwin
    /\ maint = NoMaint
    /\ patcher = NoPatcher
    /\ messages = <<>>
    /\ sends = <<>>
    /\ InitMore
    /\ \E t \in AgentIds, c1, c2 \in Contents :
          hasher = [NoHash EXCEPT !.to = t, !.first = c1, !.second = c2]

HashNext == HashContents

HashSpec == HashInit /\ [][HashNext]_vars

(***************************************************************************)
(* patch.js.  A text is the sequence of its pieces; the pieces are cut     *)
(* where an old string and its new string differ, so that one text         *)
(* includes another exactly when its pieces include the other's pieces.    *)
(***************************************************************************)
\* the six applyPatch calls, in the order of the script: name, oldStr, newStr
Patches ==
    << [name |-> "PATCH 1 - reconcile skip stopped",
        oldStr |-> <<"if (!staleStatuses.has(agent.status)", ") continue;">>,
        newStr |-> <<"if (!staleStatuses.has(agent.status)",
                     " || agent.status === stopped", ") continue;">>],
       [name |-> "PATCH 2 - ensureAgentStarted stopped guard",
        oldStr |-> <<"async function ensureAgentStarted(agentId) { if (runningAgents.has(agentId)) return;">>,
        newStr |-> <<"async function ensureAgentStarted(agentId) { if (runningAgents.has(agentId)) return;",
                     " const _stoppedCheck = await getAgent(agentId); if (...) { throw ... }">>],
       [name |-> "PATCH 3 - message_dedup table creation",
        oldStr |-> <<"  } catch {}", " } async function closeDb()">>,
        newStr |-> <<"  } catch {}", " await db.query(...); await db.query(...); await db.query(...);",
                     " } async function closeDb()">>],
       [name |-> "PATCH 4 - shouldRouteMessage async",
        oldStr |-> <<"function shouldRouteMessage(fromAgentId, toAgentId, rawMessage) {">>,
        newStr |-> <<"async ",
                     "function shouldRouteMessage(fromAgentId, toAgentId, rawMessage) {">>],
       [name |-> "PATCH 5 - DB dedup persistence",
        oldStr |-> <<"  routedEventCache.set(dedupKey, nowMs);", "  const loopRouteKey">>,
        newStr |-> <<"  routedEventCache.set(dedupKey, nowMs);",
                     "  try { ... } catch (_e) { }", "  const loopRouteKey">>],
       [name |-> "PATCH 6 - await shouldRouteMessage",
        oldStr |-> <<"  const routingDecision = ",
                     "shouldRouteMessage(callerAgentId, args.targetAgentId, normalizedMessage);">>,
        newStr |-> <<"  const routingDecision = ", "await ",
                     "shouldRouteMessage(callerAgentId, args.targetAgentId, normalizedMessage);">>] >>

\* String.prototype.includes
IncludesAt(text, sub, k) ==
    /\ k + Len(sub) - 1 <= Len(text)
    /\ SubSeq(text, k, k + Len(sub) - 1) = sub

Includes(text, sub) == \E k \in 1..Len(text) : IncludesAt(text, sub, k)

\* String.prototype.replace with a string pattern: the first occurrence only
ReplaceFirst(text, oldStr, newStr) ==
    IF ~Includes(text, oldStr) THEN text
    ELSE LET k == CHOOSE i \in 1..Len(text) :
                     /\ IncludesAt(text, oldStr, i)
                     /\ \A j \in 1..(i - 1) : ~IncludesAt(text, oldStr, j)
         IN  SubSeq(text, 1, k - 1) \o newStr
                 \o SubSeq(text, k + Len(oldStr), Len(text))

\* the script's state: src, appliedCount, what each applyPatch reported, and
\* whether process.exit(1) was reached
applyPatch(st, patch) ==
    IF st.exited THEN st
    ELSE IF ~Includes(st.src, patch.oldStr)
    THEN IF Includes(st.src, patch.newStr)
         THEN [st EXCEPT !.reports = Append(@, "already applied, skipping")]
         ELSE [st EXCEPT !.reports = Append(@, "MISS"), !.exited = TRUE]
    ELSE [src |-> ReplaceFirst(st.src, patch.oldStr, patch.newStr),
          appliedCount |-> st.appliedCount + 1,
          reports |-> Append(st.reports, "OK"),
          exited |-> FALSE]

RECURSIVE ApplyPatches(_, _)
ApplyPatches(st, k) ==
    IF k > Len(Patches) THEN st
    ELSE ApplyPatches(applyPatch(st, Patches[k]), k + 1)

\* one run of the script: readFileSync, the six applyPatch calls, and, unless
\* the process exited, writeFileSync
RunPatchScript ==
    /\ Len(patcher.runs) < MaxRuns
    /\ LET st == ApplyPatches([src |-> patcher.file, appliedCount |-> 0,
                               reports |-> <<>>, exited |-> FALSE], 1)
           after == IF st.exited THEN patcher.file ELSE st.src
       IN  patcher' = [file |-> after,
                       runs |-> Append(patcher.runs,
                                   [reports |-> st.reports,
                                    appliedCount |-> st.appliedCount,
                                    exited |-> st.exited,
                                    before |-> patcher.file,
                                    after |-> after])]
    /\ UNCHANGED <<now, dedupVars, agentStatus, guardVars, fda, twin, maint,
                   hasher, messages, sends, moreVars>>

\* the target file: for each patch the place it rewrites, still as the
\* original (its oldStr), already rewritten (its newStr), or changed by a
\* newer build, with other code in between
SiteTexts(k) ==
    {Patches[k].oldStr, Patches[k].newStr, <<"(changed upstream)">>}

RECURSIVE TargetFiles(_)
TargetFiles(k) ==
    IF k > Len(Patches) THEN {<<"...">>}
    ELSE {<<"...">> \o site \o rest : site \in SiteTexts(k),
                                       rest \in TargetFiles(k + 1)}

PatchInit ==
    /\ InitDedup
    /\ agentStatus = [id \in AgentIds |-> Absent]
    /\ InitGuard
    /\ fda = NoFilter
    /\ twin = NoTwin
    /\ maint = NoMaint
    /\ hasher = NoHash
    /\ messages = <<>>
    /\ sends = <<>>
    /\ InitMore
    /\ \E f \in TargetFiles(1) : patcher = [file |-> f, runs |-> <<>>]

PatchNext == RunPatchScript

PatchSpec == PatchInit /\ [][PatchNext]_vars

(***************************************************************************)
(* Message delivery: the inter-agent send handler and sendMessageToAgent   *)
(* as patched (manager.patch.ts), with isDuplicateMessage                  *)
(* (message-dedup.ts) over table messages.  A row of the model stands for  *)
(* n rows of the table that agree on the columns read here.                *)
(***************************************************************************)
DEDUP_TTL_MS == 72 * 60 * 60 * 1000
MSG_QUERY_LIMIT == 200

MessageRow(agentId, role, content, n) ==
    [agent_id |-> agentId, role |-> role, content |-> content,
     created_at |-> now, n |-> n]

\* WHERE agent_id = $1 AND role = 'user' AND created_at >= $2
RecentUserRows(toAgentId, since) ==
    {k \in DOMAIN messages :
        /\ messages[k].agent_id = toAgentId
        /\ messages[k].role = "user"
        /\ messages[k].created_at >= since}

RECURSIVE RowCount(_)
RowCount(K) ==
    IF K = {} THEN 0
    ELSE LET k == CHOOSE x \in K : TRUE
         IN  messages[k].n + RowCount(K \ {k})

\* ORDER BY created_at DESC LIMIT 200, rows of one created_at in any order
Newer(K, k) == {j \in K : messages[j].created_at > messages[k].created_at}
Tied(K, k) == {j \in K : messages[j].created_at = messages[k].created_at}

\* the SELECT can return a row of k: fewer than 200 selected rows are newer
MayReturn(K, k) == RowCount(Newer(K, k)) < MSG_QUERY_LIMIT

\* the SELECT can return no row of the set M at the created_at of k: the
\* places left at that created_at can all be taken by other rows
MayOmit(K, M, k) ==
    MSG_QUERY_LIMIT - RowCount(Newer(K, k)) <= RowCount(Tied(K, k) \ M)

\* what the loop over the returned rows can answer: true when a returned row
\* has the hash of the incoming content, false when none has
DuplicateAnswers(toAgentId, content) ==
    LET K == RecentUserRows(toAgentId, now - DEDUP_TTL_MS)
        M == {k \in K : computeMessageHash(toAgentId, messages[k].content)
                          = computeMessageHash(toAgentId, content)}
    IN  {d \in BOOLEAN : IF d THEN \E k \in M : MayReturn(K, k)
                              ELSE \A k \in M : MayOmit(K, M, k)}

\* the agent messages are addressed to, the contents asked to be delivered,
\* and the content of other traffic
DeliveryTargets == {"g1"}
DeliveryContents == {<<"a", " ", "a">>, <<"a", " ", " ", "a">>}
OtherContent == <<"b">>

\* `[Message from ${fromName}]: ${message}`
FromPrefix == <<"[Message from a1]: ">>

NewSend(via, toAgentId, content) ==
    [via |-> via, to |-> toAgentId, content |-> content,
     pc |-> IF via = "handler" THEN "resolve" ELSE "getAgent",
     read |-> <<>>, queryOk |-> FALSE, isDup |-> FALSE,
     activity |-> FALSE, started |-> FALSE,
     inserted |-> FALSE, insertedAt |-> 0, result |-> <<>>]

UnchangedByDelivery ==
    UNCHANGED <<now, dedupVars, recon, gstart, coreCalls, fda, twin, maint,
                hasher, patcher, moreVars>>

\* a delivery is asked for: the send_message handler is invoked, or
\* sendMessageToAgent is called directly (scheduler, manager)
SendCall(via, toAgentId, content) ==
    /\ Len(sends) < MaxSends
    /\ sends' = Append(sends, NewSend(via, toAgentId, content))
    /\ UNCHANGED <<agentStatus, messages>>
    /\ UnchangedByDelivery

\* what sendMessageToAgent's return gives the caller of the delivery: the
\* handler goes on to `Message delivered to ${toAgent.name}`
SendReturns(c) ==
    IF c.via = "handler"
    THEN <<"resolved", "Message delivered to", NameOf(c.to)>>
    ELSE <<"resolved", "undefined">>

\* handler, PATCH 4: resolveTargetAgent, the not-found and the stopped
\* returns, then the call of sendMessageToAgent with the prefixed message
ResolveTarget(i) ==
    /\ sends[i].pc = "resolve"
    /\ LET c == sends[i]
           st == agentStatus[c.to]
       IN  sends' = [sends EXCEPT ![i] =
              IF st = Absent
              THEN [c EXCEPT !.pc = "done", !.read = Append(@, st),
                             !.result = <<"resolved", "Error: agent not found", c.to>>]
              ELSE IF st = "stopped"
              THEN [c EXCEPT !.pc = "done", !.read = Append(@, st),
                             !.result = <<"resolved",
                                          "Error: agent is stopped - message not delivered",
                                          NameOf(c.to)>>]
              ELSE [c EXCEPT !.pc = "getAgent", !.read = Append(@, st),
                             !.content = FromPrefix \o @]]
    /\ UNCHANGED <<agentStatus, messages>>
    /\ UnchangedByDelivery

\* sendMessageToAgent, PATCH 3: getAgent, the not-found throw, and the
\* stopped guard (console.warn; return)
SendGetAgent(i) ==
    /\ sends[i].pc = "getAgent"
    /\ LET c == sends[i]
           st == agentStatus[c.to]
       IN  sends' = [sends EXCEPT ![i] =
              IF st = Absent
              THEN [c EXCEPT !.pc = "done", !.read = Append(@, st),
                             !.result = <<"rejected", "Agent not found", c.to>>]
              ELSE IF st = "stopped"
              THEN [c EXCEPT !.pc = "done", !.read = Append(@, st),
                             !.result = SendReturns(c)]
              ELSE [c EXCEPT !.pc = "dedup", !.read = Append(@, st)]]
    /\ UNCHANGED <<agentStatus, messages>>
    /\ UnchangedByDelivery

\* isDuplicateMessage: the SELECT runs (ok) and the loop answers, or the
\* query rejects (~ok) and the catch answers false; on a duplicate
\* sendMessageToAgent records the drop with insertActivity and returns
DedupQuery(i, ok) ==
    /\ sends[i].pc = "dedup"
    /\ LET c == sends[i]
       IN  \E d \in (IF ok THEN DuplicateAnswers(c.to, c.content) ELSE {FALSE}) :
              sends' = [sends EXCEPT ![i] =
                 IF d
                 THEN [c EXCEPT !.pc = "done", !.queryOk = ok, !.isDup = TRUE,
                                !.activity = TRUE, !.result = SendReturns(c)]
                 ELSE [c EXCEPT !.pc = "start", !.queryOk = ok]]
    /\ UNCHANGED <<agentStatus, messages>>
    /\ UnchangedByDelivery

\* ensureAgentStarted, PATCH 1: nothing to do for a running agent; otherwise
\* getAgent, the throw for a stopped agent, and startAgent
EnsureStarted(i, running) ==
    /\ sends[i].pc = "start"
    /\ LET c == sends[i]
           st == agentStatus[c.to]
       IN  sends' = [sends EXCEPT ![i] =
              IF running THEN [c EXCEPT !.pc = "insert"]
              ELSE IF st = "stopped"
              THEN [c EXCEPT !.pc = "done",
                             !.result = <<"rejected",
                                          "is stopped and cannot be restarted automatically",
                                          c.to>>]
              ELSE [c EXCEPT !.pc = "insert", !.started = TRUE]]
    /\ UNCHANGED <<agentStatus, messages>>
    /\ UnchangedByDelivery

\* insertMessage({ agentId, role: "user", content })
InsertMessage(i) ==
    /\ sends[i].pc = "insert"
    /\ messages' = Append(messages,
                          MessageRow(sends[i].to, "user", sends[i].content, 1))
    /\ LET c == sends[i]
       IN  sends' = [sends EXCEPT ![i] =
                       [c EXCEPT !.pc = "done", !.inserted = TRUE,
                                 !.insertedAt = now, !.result = SendReturns(c)]]
    /\ UNCHANGED agentStatus
    /\ UnchangedByDelivery

\* other traffic: MSG_QUERY_LIMIT further messages of a role are stored for
\* an agent, one insertMessage each, with another content
Backlog(agentId, role) ==
    /\ Cardinality({k \in DOMAIN messages : messages[k].n > 1}) < MaxBacklogs
    /\ messages' = Append(messages,
                          MessageRow(agentId, role, OtherContent, MSG_QUERY_LIMIT))
    /\ UNCHANGED <<agentStatus, sends>>
    /\ UnchangedByDelivery

DeliveryInit ==
    /\ InitDedup
    /\ agentStatus \in [AgentIds -> Statuses \cup {Absent}]
    /\ \A id \in AgentIds \ DeliveryTargets : agentStatus[id] = Absent
    /\ InitGuard
    /\ fda = NoFilter
    /\ twin = NoTwin
    /\ InitTools

DeliveryNext ==
    \/ \E via \in {"handler", "direct"}, id \in DeliveryTargets,
          c \in DeliveryContents :
          SendCall(via, id, c)
    \/ \E i \in DOMAIN sends : ResolveTarget(i)
    \/ \E i \in DOMAIN sends : SendGetAgent(i)
    \/ \E i \in DOMAIN sends, ok \in BOOLEAN : DedupQuery(i, ok)
    \/ \E i \in DOMAIN sends, running \in BOOLEAN : EnsureStarted(i, running)
    \/ \E i \in DOMAIN sends : InsertMessage(i)
    \/ \E id \in DeliveryTargets, role \in {"user", "assistant"} :
          Backlog(id, role)
    \/ \E id \in AgentIds : OperatorStops(id)
    \/ Tick

DeliverySpec == DeliveryInit /\ [][DeliveryNext]_vars

(***************************************************************************)
(* Two runs of the dedup store fed the same calls and prunes at the same   *)
(* instants, the store always answering: run A keeps its in-memory cache,  *)
(* run B may lose it (restart) and may rehydrate it.                       *)
(***************************************************************************)
\* checkAndRecordDedup run to completion with no other call in between
SeqCheck(c, table, call) ==
    LET key == buildDedupKey(call.from, call.to, call.meta)
        swept == evictExpired(c, call.nowMs)
        ins == InsertOnConflictDoNothing(table, DedupRow(call, call.nowMs))
    IN  IF L1Hit(swept, key, call.nowMs, call.ttlMs)
        THEN [cache |-> swept, table |-> table, res |-> "dup"]
        ELSE [cache |-> CacheSet(swept, key, WarmSeenAt(call, table)),
              table |-> ins.table,
              res |-> IF ins.rows = 0 THEN "dup" ELSE "new"]

TwinCall(fromAgentId, toAgentId, meta, ttlMs) ==
    /\ LET call == [from |-> fromAgentId, to |-> toAgentId, meta |-> meta,
                    ttlMs |-> ttlMs, nowMs |-> now]
           a == SeqCheck(twin.cacheA, twin.dbA, call)
           b == SeqCheck(twin.cacheB, twin.dbB, call)
       IN  twin' = [cacheA |-> a.cache, dbA |-> a.table, resA |-> a.res,
                    cacheB |-> b.cache, dbB |-> b.table, resB |-> b.res]
    /\ twin' # twin
    /\ UNCHANGED <<now, dedupVars, agentStatus, guardVars, fda, maint, toolVars>>

TwinPrune ==
    /\ twin' = [twin EXCEPT !.dbA = PruneDelete(@, now),
                            !.dbB = PruneDelete(@, now)]
    /\ twin' # twin
    /\ UNCHANGED <<now, dedupVars, agentStatus, guardVars, fda, maint, toolVars>>

TwinRestartB ==
    /\ twin.cacheB # <<>>
    /\ twin' = [twin EXCEPT !.cacheB = <<>>]
    /\ UNCHANGED <<now, dedupVars, agentStatus, guardVars, fda, maint, toolVars>>

TwinLoadB(windowMs) ==
    /\ LET S == LoadSelect(twin.dbB, now, now - windowMs)
       IN  \E rows \in [1..Cardinality(S) -> S] :
              /\ IsLoadOrder(rows, S)
              /\ twin' = [twin EXCEPT !.cacheB = LoadRows(@, Limit(rows))]
    /\ twin' # twin
    /\ UNCHANGED <<now, dedupVars, agentStatus, guardVars, fda, maint, toolVars>>

TwinNext ==
    \/ \E f \in FromIds, t \in ToIds, m \in Metas, ttl \in TtlChoices :
          TwinCall(f, t, m, ttl)
    \/ TwinPrune
    \/ TwinRestartB
    \/ TwinLoadB(ROUTING_DEDUP_TTL_MS)
    \/ Tick

TwinSpec == Init /\ [][TwinNext]_vars

(***************************************************************************)
(* The bundle as patch.js leaves it: table message_dedup(dedup_key,         *)
(* seen_at_ms) of PATCH 3 and the block PATCH 5 adds to shouldRouteMessage. *)
(* The block is reached by a routing check whose in-memory test passed.    *)
(***************************************************************************)
DedupKeys == {"k1", "k2"}

BundleRow(key, seenAtMs) == [dedup_key |-> key, seen_at_ms |-> seenAtMs]

\* INSERT ... VALUES ($1, $2) ON CONFLICT (dedup_key) DO UPDATE SET
\* seen_at_ms = $2
Upsert(table, key, nowMs) ==
    {r \in table : r.dedup_key # key} \cup {BundleRow(key, nowMs)}

BundleStarted == Len(bundle.log) + Cardinality(bundle.calls)

\* the block up to the answer of its SELECT: the rows of the key are read
\* (ok), or getDb() or the query rejects and the catch swallows it (~ok)
RouteSelect(key, ok) ==
    /\ BundleStarted < MaxCalls
    /\ LET c == [id |-> BundleStarted + 1, key |-> key, nowMs |-> now,
                 rows |-> {r \in bundle.table : r.dedup_key = key}]
       IN  bundle' = IF ok THEN [bundle EXCEPT !.calls = @ \cup {c}]
                     ELSE [bundle EXCEPT
                             !.log = Append(@, [key |-> key, res |-> "catch"])]
    /\ UNCHANGED <<now, dedupVars, agentStatus, guardVars, fda, twin, maint,
                   hasher, patcher, messages, sends, lru, sched>>

\* the continuation: a row seen within the TTL makes the check return
\* shouldDeliver=false; otherwise the upsert runs (ok) or rejects (~ok)
RouteUpsert(c, ok) ==
    /\ c \in bundle.calls
    /\ LET dup == \E r \in c.rows : c.nowMs - r.seen_at_ms <= ROUTING_DEDUP_TTL_MS
           res == IF dup THEN "deduplicated" ELSE IF ok THEN "upserted" ELSE "catch"
       IN  bundle' = [table |-> IF ~dup /\ ok
                                THEN Upsert(bundle.table, c.key, c.nowMs)
                                ELSE bundle.table,
                      calls |-> bundle.calls \ {c},
                      log |-> Append(bundle.log, [key |-> c.key, res |-> res])]
    /\ UNCHANGED <<now, dedupVars, agentStatus, guardVars, fda, twin, maint,
                   hasher, patcher, messages, sends, lru, sched>>

\* initSchema at startup: DELETE FROM message_dedup WHERE seen_at_ms < $1
\* with $1 = Date.now() - 72h
InitSchemaPrune ==
    /\ bundle' = [bundle EXCEPT
                    !.table = {r \in @ : ~(r.seen_at_ms < now - ROUTING_DEDUP_TTL_MS)}]
    /\ bundle' # bundle
    /\ UNCHANGED <<now, dedupVars, agentStatus, guardVars, fda, twin, maint,
                   hasher, patcher, messages, sends, lru, sched>>

BundleNext ==
    \/ \E k \in DedupKeys, ok \in BOOLEAN : RouteSelect(k, ok)
    \/ \E c \in bundle.calls, ok \in BOOLEAN : RouteUpsert(c, ok)
    \/ InitSchemaPrune
    \/ Tick

BundleSpec == Init /\ [][BundleNext]_vars

(***************************************************************************)
(* The scheduler as patched (scheduler/jobs.ts): pickAssignee and          *)
(* resumeAssignedInProgressTasksAfterRestart, applied to any pool of        *)
(* agents, any task and any list of assigned tasks.                        *)
(***************************************************************************)
Roles == {"r1", "r2"}
SchedStatuses == {"idle", "executing", "stopped"}

Agent(id, role, status) == [id |-> id, role |-> role, status |-> status]

\* pools of up to two agents with distinct ids
Pools ==
    LET A == {Agent(id, r, st) : id \in AgentIds, r \in Roles, st \in SchedStatuses}
    IN  {l \in UNION {[1..n -> A] : n \in 0..Cardinality(AgentIds)} :
            \A m, n \in DOMAIN l : m # n => l[m].id # l[n].id}

\* the roles a task asks for, in order of preference
RolePreferences ==
    {l \in UNION {[1..n -> Roles] : n \in 1..Cardinality(Roles)} :
        \A m, n \in DOMAIN l : m # n => l[m] # l[n]}

\* the assignee ids of the assigned in-progress tasks: no assignee, an agent
\* of the directory, or an id the directory does not hold
AssigneeIds == {NULL, "g9"} \cup AgentIds
TaskLists == UNION {[1..n -> AssigneeIds] : n \in 0..2}

\* mutant of ActiveAgents: the pool as before the patch, stopped agents in it
WholePool(agents) == agents

\* const active = agents.filter((a) => a.status !== "stopped")
ActiveAgents(agents) == SelectSeq(agents, LAMBDA a : a.status # "stopped")

\* byRole: active.find((a) => a.role === role), <<>> for undefined
byRole(active, role) ==
    LET m == SelectSeq(active, LAMBDA a : a.role = role)
    IN  IF m = <<>> THEN <<>> ELSE <<m[1]>>

\* the rest of pickAssignee: the first role of the task's preference that
\* byRole finds an agent for
RECURSIVE FirstByRole(_, _)
FirstByRole(active, roles) ==
    IF roles = <<>> THEN <<>>
    ELSE IF byRole(active, Head(roles)) # <<>> THEN byRole(active, Head(roles))
    ELSE FirstByRole(active, Tail(roles))

pickAssignee(roles, agents) == FirstByRole(ActiveAgents(agents), roles)

\* byId.get(task.assigneeId), <<>> for undefined
ById(agents, id) ==
    LET m == SelectSeq(agents, LAMBDA a : a.id = id)
    IN  IF m = <<>> THEN <<>> ELSE <<m[1]>>

\* the for loop over the assigned tasks: the ids that
\* manager.sendMessageToAgent is called with, in order
RECURSIVE ResumeLoop(_, _, _)
ResumeLoop(tasks, agents, sent) ==
    IF tasks = <<>> THEN sent
    ELSE LET assigneeId == Head(tasks)
             assignee == ById(agents, assigneeId)
         IN  IF assigneeId = NULL THEN ResumeLoop(Tail(tasks), agents, sent)
             ELSE IF assignee = <<>> THEN ResumeLoop(Tail(tasks), agents, sent)
             ELSE IF assignee[1].status = "stopped"
                  THEN ResumeLoop(Tail(tasks), agents, sent)
             ELSE ResumeLoop(Tail(tasks), agents, Append(sent, assignee[1].id))

UnchangedByScheduler ==
    UNCHANGED <<now, dedupVars, agentStatus, guardVars, fda, twin, maint,
                hasher, patcher, messages, sends, bundle, lru>>

PickAssigneeCall ==
    /\ ~sched.pickDone
    /\ sched' = [sched EXCEPT !.pickDone = TRUE,
                              !.picked = pickAssignee(sched.roles, sched.agents)]
    /\ UnchangedByScheduler

ResumeAfterRestart ==
    /\ ~sched.resumeDone
    /\ sched' = [sched EXCEPT !.resumeDone = TRUE,
                              !.resumes = ResumeLoop(sched.tasks, sched.agents, <<>>)]
    /\ UnchangedByScheduler

SchedInit ==
    /\ InitDedup
    /\ agentStatus = [id \in AgentIds |-> Absent]
    /\ InitGuard
    /\ fda = NoFilter
    /\ twin = NoTwin
    /\ maint = NoMaint
    /\ hasher = NoHash
    /\ patcher = NoPatcher
    /\ messages = <<>>
    /\ sends = <<>>
    /\ bundle = NoBundle
    /\ lru = NoLru
    /\ \E pool \in Pools, roles \in RolePreferences, tasks \in TaskLists :
          sched = [NoSched EXCEPT !.agents = pool, !.roles = roles,
                                  !.tasks = tasks]

SchedNext == PickAssigneeCall \/ ResumeAfterRestart

SchedSpec == SchedInit /\ [][SchedNext]_vars

(***************************************************************************)
(* The in-memory cache at its capacity.  ROUTING_DEDUP_MAX_KEYS keeps its  *)
(* value, so keys are counted, not listed: the fingerprints recorded in    *)
(* one burst (same instant, distinct contents) are alike, and an entry     *)
(* [burst, n, seenAt] of the Map stands for n of them inserted one after    *)
(* the other.  A row of the table stands for n records in the same way.    *)
(***************************************************************************)
BurstSizes == {1, ROUTING_DEDUP_MAX_KEYS, ROUTING_DEDUP_MAX_KEYS + 1}

\* inMemoryCache.size
Size(c) == IF c = <<>> THEN 0
           ELSE LET sum[k \in 0..Len(c)] == IF k = 0 THEN 0 ELSE sum[k - 1] + c[k].n
                IN  sum[Len(c)]

\* the number of records in the table
RECURSIVE TableRows(_)
TableRows(table) ==
    IF table = {} THEN 0
    ELSE LET r == CHOOSE x \in table : TRUE
         IN  r.n + TableRows(table \ {r})

\* mutant of EvictOldestKeys: the keys inserted last deleted first
RECURSIVE EvictNewestKeys(_)
EvictNewestKeys(c) ==
    IF Size(c) > ROUTING_DEDUP_MAX_KEYS
    THEN LET excess == Size(c) - ROUTING_DEDUP_MAX_KEYS
             last == c[Len(c)]
             rest == SubSeq(c, 1, Len(c) - 1)
         IN  IF last.n <= excess THEN EvictNewestKeys(rest)
             ELSE Append(rest, [last EXCEPT !.n = @ - excess])
    ELSE c

\* while (size > ROUTING_DEDUP_MAX_KEYS) delete keys().next().value : the
\* first key of the Map goes, one per turn; the turns that take keys of the
\* first entry are taken together.  A key is never the empty string, so
\* `if (oldest)` holds at every turn.
RECURSIVE EvictOldestKeys(_)
EvictOldestKeys(c) ==
    IF Size(c) > ROUTING_DEDUP_MAX_KEYS
    THEN LET excess == Size(c) - ROUTING_DEDUP_MAX_KEYS
         IN  IF Head(c).n <= excess THEN EvictOldestKeys(Tail(c))
             ELSE <<[Head(c) EXCEPT !.n = @ - excess]>> \o Tail(c)
    ELSE c

\* evictExpired on the counted Map
evictExpiredKeys(c, nowMs) ==
    EvictOldestKeys(SelectSeq(c, LAMBDA e : NotAged(nowMs, e)))

\* the keys of a burst that the Map holds
Held(c, burst) ==
    Size(SelectSeq(c, LAMBDA e : e.burst = burst))

\* the loop of loadStartupDedupGuard over the rows: inMemoryCache.set leaves
\* a key that is present in its place and appends a key that is not
RECURSIVE LoadKeys(_, _)
LoadKeys(c, rows) ==
    IF rows = <<>> THEN c
    ELSE LET r == Head(rows)
             set == [k \in DOMAIN c |->
                       IF c[k].burst = r.burst
                       THEN [c[k] EXCEPT !.seenAt = r.seen_at] ELSE c[k]]
             missing == r.n - Held(c, r.burst)
         IN  LoadKeys(IF missing > 0
                      THEN Append(set, [burst |-> r.burst, n |-> missing,
                                        seenAt |-> r.seen_at])
                      ELSE set,
                      Tail(rows))

\* ORDER BY seen_at DESC: the listings of S with the latest seen_at first,
\* ties in any order
RECURSIVE LoadOrders(_)
LoadOrders(S) ==
    IF S = {} THEN {<<>>}
    ELSE UNION {{<<r>> \o t : t \in LoadOrders(S \ {r})} :
                   r \in {x \in S : \A y \in S : x.seen_at >= y.seen_at}}

UnchangedByCache ==
    UNCHANGED <<now, dedupVars, agentStatus, guardVars, fda, twin, maint,
                hasher, patcher, messages, sends, bundle, sched>>

KeyRow(burst, n) ==
    [burst |-> burst, n |-> n, seen_at |-> now,
     expires_at |-> now + ROUTING_DEDUP_TTL_MS]

\* other processes sharing the store record n new fingerprints (the table
\* stays within the LIMIT of the startup load)
StoreBurst(n) ==
    /\ lru.bursts < MaxBursts
    /\ TableRows(lru.table) + n <= LOAD_LIMIT
    /\ lru' = [lru EXCEPT
                 !.bursts = @ + 1,
                 !.table = @ \cup {KeyRow(<<"burst", lru.bursts + 1>>, n)}]
    /\ UnchangedByCache

\* checkAndRecordDedup of a fingerprint not seen before, the store answering:
\* the sweep, the INSERT and inMemoryCache.set(key, nowMs)
CheckNewKey ==
    /\ lru.checks < MaxCalls
    /\ TableRows(lru.table) + 1 <= LOAD_LIMIT
    /\ LET swept == evictExpiredKeys(lru.cache, now)
           burst == <<"check", lru.checks + 1>>
       IN  lru' = [lru EXCEPT
                     !.checks = @ + 1,
                     !.table = @ \cup {KeyRow(burst, 1)},
                     !.cache = Append(swept, [burst |-> burst, n |-> 1,
                                              seenAt |-> now]),
                     !.sweeps = <<[nowMs |-> now, before |-> lru.cache,
                                   after |-> swept]>>]
    /\ UnchangedByCache

\* loadStartupDedupGuard, its SELECT answering: the rows of one burst come
\* together
LoadKeysAtStartup(windowMs) ==
    /\ LET S == LoadSelect(lru.table, now, now - windowMs)
       IN  \E rows \in LoadOrders(S) :
              lru' = [lru EXCEPT !.cache = LoadKeys(@, rows)]
    /\ lru' # lru
    /\ UnchangedByCache

\* the process restarts: the Map is created empty
CacheLost ==
    /\ lru.cache # <<>>
    /\ lru' = [lru EXCEPT !.cache = <<>>, !.sweeps = <<>>]
    /\ UnchangedByCache

LruNext ==
    \/ \E n \in BurstSizes : StoreBurst(n)
    \/ CheckNewKey
    \/ CacheLost
    \/ LoadKeysAtStartup(ROUTING_DEDUP_TTL_MS)
    \/ Tick

LruSpec == Init /\ [][LruNext]_vars

(***************************************************************************)
(* Properties of the dedup store                                           *)
(***************************************************************************)
SameInputs(i, j) ==
    /\ i.from = j.from /\ i.to = j.to /\ i.meta = j.meta
    /\ i.ttlMs = j.ttlMs

SameRouteHash(i, j) ==
    /\ i.from = j.from /\ i.to = j.to
    /\ i.meta.eventHash = j.meta.eventHash

Returned(e) == e.res \in {"new", "dup"}

\* the call log[a] finished before any other call on its (from, to, hash)
\* started: there was no prior record and no concurrent call
FirstOnRouteHash(a) ==
    /\ \A b \in DOMAIN log \ {a} :
          SameRouteHash(log[a], log[b]) => log[b].after >= a
    /\ \A c \in calls : SameRouteHash(log[a], c) => c.after >= a

\* log[b] repeats the inputs of log[a], started after log[a] finished and
\* finished within the TTL window that log[a] opened
LaterInWindow(a, b) ==
    /\ b # a
    /\ SameInputs(log[a], log[b])
    /\ log[b].after >= a
    /\ log[b].doneAt <= log[a].nowMs + log[a].ttlMs

\* the process of log[a] has kept its in-memory cache up to log[b]
CacheKept(a, b) == log[a].proc = log[b].proc /\ log[a].kept

\* both calls were decided with the durable store answering
StoreAnswered(a, b) == log[a].tier = "db" /\ log[b].tier \in {"db", "L1"}

\* C1 (idempotence): for fixed (from, to, meta, ttl), a call that finds no
\* prior record of its (from, to, hash) returns isDuplicate=false, and every
\* later call with the same inputs that returns within the TTL window of the
\* first returns isDuplicate=true, as long as the process kept its cache or
\* the durable store answered both calls.
C1_Idempotence ==
    \A a \in DOMAIN log :
        (Returned(log[a]) /\ FirstOnRouteHash(a)) =>
            /\ log[a].res = "new"
            /\ \A b \in DOMAIN log :
                  (/\ LaterInWindow(a, b)
                   /\ Returned(log[b])
                   /\ (CacheKept(a, b) \/ StoreAnswered(a, b)))
                  => log[b].res = "dup"

\* a first call returned non-duplicate and a repeat in the window was
\* answered duplicate by the cache the process kept
C1_Witness ==
    \E a, b \in DOMAIN log :
        /\ Returned(log[a]) /\ FirstOnRouteHash(a)
        /\ LaterInWindow(a, b) /\ CacheKept(a, b)
        /\ log[b].res = "dup" /\ log[b].tier = "L1"

\* log[a] recorded its fingerprint in the durable tier, its process then
\* lost the in-memory cache, and log[b] repeated the inputs afterwards
RecordedThenRestarted(a, b) ==
    /\ log[a].res = "new" /\ log[a].tier = "db"
    /\ LaterInWindow(a, b)
    /\ log[a].proc = log[b].proc
    /\ ~log[a].kept /\ log[b].kept

\* C2 (restart-safety): once a call has recorded its fingerprint in the
\* durable tier, a call with the same inputs made after the process lost its
\* whole in-memory cache, answered by the store within the TTL, returns
\* isDuplicate=true.
C2_RestartSafe ==
    \A a, b \in DOMAIN log :
        (RecordedThenRestarted(a, b) /\ log[b].tier \in {"db", "L1"})
        => log[b].res = "dup"

\* ... and it is the durable tier that answered
C2_Witness ==
    \E a, b \in DOMAIN log :
        /\ RecordedThenRestarted(a, b)
        /\ log[b].tier = "db" /\ log[b].res = "dup"

\* log[a] and log[b] ran concurrently with identical inputs: each started
\* before the other finished, no other call on their (from, to, hash) started
\* before both had finished, the store answered both, and both finished
\* within the TTL of the one the store served first
Race(a, b) ==
    /\ a < b
    /\ SameInputs(log[a], log[b])
    /\ log[b].after < a
    /\ \A n \in DOMAIN log \ {a, b} :
          SameRouteHash(log[a], log[n]) => log[n].after >= b
    /\ \A c \in calls : SameRouteHash(log[a], c) => c.after >= b
    /\ log[a].tier = "db" /\ log[b].tier = "db"
    /\ log[b].doneAt <= log[a].nowMs + log[a].ttlMs

\* C3 (concurrent race): of two concurrent calls with identical inputs and
\* no prior record, in one process or in two processes sharing the store,
\* exactly one returns isDuplicate=false and the other isDuplicate=true.
C3_ExactlyOneFirst ==
    \A a, b \in DOMAIN log :
        Race(a, b) =>
            /\ log[a].res = "new"
            /\ log[b].res = "dup"

\* the race happened between two processes
C3_Witness ==
    \E a, b \in DOMAIN log : Race(a, b) /\ log[a].proc # log[b].proc

\* log[b] is the next call on the (from, to, hash) of log[a] after log[a]
\* recorded it, with the same inputs, answered by the store
NextOnRouteHash(a, b) ==
    /\ log[a].res = "new" /\ log[a].tier = "db"
    /\ a < b
    /\ SameInputs(log[a], log[b])
    /\ log[b].after >= a
    /\ log[b].tier \in {"db", "L1"}
    /\ \A n \in DOMAIN log \ {a, b} :
          SameRouteHash(log[a], log[n]) => (log[n].after >= b \/ n < a)
    /\ \A c \in calls : SameRouteHash(log[a], c) => c.after >= b

\* C4 (TTL expiry): a fingerprint recorded at T with TTL d is reported
\* duplicate on a recheck up to T+d, and on a recheck after T+d it is
\* reported non-duplicate and a new durable record is created, whether or
\* not pruneExpiredDedup has run in between.
C4_TtlExpiry ==
    \A a, b \in DOMAIN log :
        NextOnRouteHash(a, b) =>
            /\ log[b].doneAt <= log[a].nowMs + log[a].ttlMs
                  => log[b].res = "dup"
            /\ log[b].nowMs > log[a].nowMs + log[a].ttlMs
                  => /\ log[b].res = "new"
                     /\ \E r \in db :
                           /\ RouteHash(r) = <<log[b].from, log[b].to,
                                               log[b].meta.eventHash>>
                           /\ r.expires_at = log[b].nowMs + log[b].ttlMs

\* C7 (fail-open): whenever the durable store is unavailable (the query
\* rejects, or no adapter is registered), a call for a fingerprint that is
\* not in the in-memory cache resolves with isDuplicate=false and never
\* raises.
C7_FailOpen ==
    \A a \in DOMAIN log :
        log[a].tier \in {"error", "noadapter"} => log[a].res = "new"

\* C6 (cross-restart consistency): every call returns the same isDuplicate
\* in the run that keeps its in-memory cache and in the run that loses it.
C6_SameVerdict == twin.resA = twin.resB

(***************************************************************************)
(* Properties of the stopped-agent guards                                  *)
(***************************************************************************)
\* C5 (stopped is absorbing for automation): under any interleaving with an
\* operator who stops agents, the core never calls updateAgentStatus or
\* startAgent on an agent whose current status is stopped.
C5_StoppedAbsorbing ==
    \A c \in coreCalls :
        c.fn \in {"updateAgentStatus", "startAgent"} => c.current # "stopped"

\* the ids of the agents of the list whose status is in S, in list order
IdsWithStatus(agents, S) ==
    LET sel == SelectSeq(agents, LAMBDA a : a.status \in S)
    IN  [n \in DOMAIN sel |-> sel[n].id]

Range(q) == {q[n] : n \in DOMAIN q}

\* C8 (stopped-sticky reconcile): safeReconcileOnStartup returns skipped =
\* exactly the ids of the agents given with status stopped and reset =
\* exactly the ids of those given as thinking or executing; no stopped agent
\* is in reset, and updateAgentStatus(id, "idle") was called for every id in
\* reset.
C8_ReconcileResult ==
    recon.pc = "done" =>
        /\ recon.skipped = IdsWithStatus(recon.agents, {"stopped"})
        /\ recon.reset = IdsWithStatus(recon.agents, {"thinking", "executing"})
        /\ Range(recon.reset) \cap Range(recon.skipped) = {}
        /\ \A id \in Range(recon.reset) :
              \E c \in coreCalls :
                 c.fn = "updateAgentStatus" /\ c.id = id /\ c.arg = "idle"

\* a reconcile that returned with a skipped agent and a reset agent
C8_Witness ==
    /\ recon.pc = "done"
    /\ recon.skipped # <<>>
    /\ recon.reset # <<>>

\* q is p with some elements left out, the rest in the same relative order,
\* and the positions kept are exactly those in Keep
KeepsExactly(p, q, Keep) ==
    \E f \in [DOMAIN q -> DOMAIN p] :
        /\ \A m, n \in DOMAIN q : m < n => f[m] < f[n]
        /\ \A n \in DOMAIN q : q[n] = p[f[n]]
        /\ {f[n] : n \in DOMAIN q} = Keep

\* C9 (dispatch exclusion): filterDispatchableAgents returns exactly the
\* agents whose status is not stopped, in the relative order of the input,
\* and leaves the input list as it was given.
C9_FilterExact ==
    fda.pc = "done" =>
        /\ KeepsExactly(fda.given, fda.out,
                        {n \in DOMAIN fda.given : fda.given[n].status # "stopped"})
        /\ fda.agents = fda.given

\* a list with a stopped agent between two agents that are kept
C9_Witness ==
    /\ fda.pc = "done"
    /\ Len(fda.given) = 3 /\ Len(fda.out) = 2
    /\ fda.given[2].status = "stopped"
    /\ fda.out[1] # fda.out[2]

\* C10 (guardedStartAgent): a fetched status of stopped fails with an error
\* naming the agent and startAgent is never invoked; an agent that does not
\* exist fails with a not-found error and startAgent is never invoked; for
\* every other status startAgent(agentId) is invoked exactly once and its
\* outcome is the outcome of the call.
C10_GuardedStart ==
    gstart.pc = "done" =>
        IF gstart.agent = <<>>
        THEN /\ gstart.result = <<"not found", gstart.id>>
             /\ gstart.startCalls = 0
        ELSE IF gstart.agent[1].status = "stopped"
        THEN /\ gstart.result = <<"refusing to start stopped agent",
                                  NameOf(gstart.id), gstart.id>>
             /\ gstart.startCalls = 0
        ELSE /\ gstart.startCalls = 1
             /\ gstart.started \in {"resolved", "rejected"}
             /\ gstart.result = <<"startAgent", gstart.started>>
             /\ \E c \in coreCalls : c.fn = "startAgent" /\ c.id = gstart.id

\* a start refused because the fetched agent was stopped
C10_Witness ==
    /\ gstart.pc = "done"
    /\ gstart.agent # <<>>
    /\ gstart.agent[1].status = "stopped"
    /\ gstart.startCalls = 0
(***************************************************************************)
(* Properties of content hashing                                           *)
(***************************************************************************)
\* the words of a content: its maximal runs of characters that are not
\* whitespace, in order
RECURSIVE WordEnd(_, _)
WordEnd(s, k) ==
    IF k > Len(s) \/ IsSpace(s[k]) THEN k - 1 ELSE WordEnd(s, k + 1)

RECURSIVE Words(_)
Words(s) ==
    IF s = <<>> THEN <<>>
    ELSE IF IsSpace(Head(s)) THEN Words(Tail(s))
    ELSE LET e == WordEnd(s, 1)
         IN  <<SubSeq(s, 1, e)>> \o Words(SubSeq(s, e + 1, Len(s)))

\* C11 (normalization): two contents that differ only in runs of whitespace
\* or in leading/trailing whitespace (they have the same words) get the same
\* content hash from hashContent and the same hash from computeMessageHash.
C11_Normalization ==
    (hasher.pc = "done" /\ Words(hasher.first) = Words(hasher.second)) =>
        /\ hasher.contentHash[1] = hasher.contentHash[2]
        /\ hasher.messageHash[1] = hasher.messageHash[2]

\* computeMessageHash alone gives contents with the same words the same hash
MessageHashNormalizes ==
    (hasher.pc = "done" /\ Words(hasher.first) = Words(hasher.second)) =>
        hasher.messageHash[1] = hasher.messageHash[2]
(***************************************************************************)
(* Properties of the durable table                                         *)
(***************************************************************************)
\* the fingerprint of a durable record: sender, recipient, task, content
\* hash and sequence
RowFingerprint(r) ==
    <<r.from_agent_id, r.to_agent_id, r.task_id, r.content_hash, r.seq>>

\* the record has not expired: its expires_at is not before the clock
NotExpired(r) == ~(r.expires_at < now)

\* C12 (durable uniqueness): in every reachable state of message_dedup, under
\* any interleaving of checkAndRecordDedup and pruneExpiredDedup calls of the
\* processes sharing the table, there is at most one non-expired record per
\* fingerprint.
C12_DurableUniqueness ==
    \A r1, r2 \in db :
        (/\ NotExpired(r1) /\ NotExpired(r2)
         /\ RowFingerprint(r1) = RowFingerprint(r2)) => r1 = r2

\* two processes each recorded the same fingerprint as new (the first record
\* was pruned in between) and the table holds its one live record
C12_Witness ==
    \E a, b \in DOMAIN log :
        /\ a < b
        /\ SameInputs(log[a], log[b])
        /\ log[a].proc # log[b].proc
        /\ log[a].res = "new" /\ log[a].tier = "db"
        /\ log[b].res = "new" /\ log[b].tier = "db"
        /\ \E r \in db :
              /\ NotExpired(r)
              /\ RowFingerprint(r) = <<log[b].from, log[b].to, log[b].meta.taskId,
                                       log[b].meta.eventHash, log[b].meta.seq>>
(***************************************************************************)
(* Properties of the maintenance calls                                     *)
(***************************************************************************)
\* C14 (prune): a pruneExpiredDedup call whose DELETE ran deletes exactly the
\* records whose expires_at is before the clock, leaves every other record
\* in place, and returns the number of records it removed.
C14_PruneExact ==
    [][(maint'.fn = "pruneExpiredDedup" /\ maint'.path = "ok") =>
          /\ db' = {r \in db : r.expires_at >= now}
          /\ maint'.value = Cardinality({r \in db : r.expires_at < now})]_vars

\* a prune has just removed an expired record and left a live one
C14_Witness ==
    /\ maint.fn = "pruneExpiredDedup" /\ maint.path = "ok"
    /\ maint.value > 0
    /\ \E r \in db : r.expires_at > now
\* the in-memory key checkAndRecordDedup computes for the request that a
\* durable record was inserted for (task_id and seq hold meta.taskId ?? null
\* and meta.seq ?? null)
CheckKey(r) ==
    buildDedupKey(r.from_agent_id, r.to_agent_id,
                  [taskId |-> r.task_id, eventHash |-> r.content_hash,
                   seq |-> r.seq])

\* the live durable records seen within the window
LiveInWindow(windowMs) ==
    {r \in db : r.expires_at > now /\ r.seen_at > now - windowMs}

\* loadStartupDedupGuard has just returned, its SELECT answered
Rehydrated == maint.fn = "loadStartupDedupGuard" /\ maint.path = "ok"

\* C15 (rehydration): after loadStartupDedupGuard(window), every live durable
\* record seen within the window (when they are no more than the row cap) is
\* in the in-memory cache under the key checkAndRecordDedup computes for it,
\* with the record's seen_at.
C15_Rehydration ==
    (Rehydrated /\ Cardinality(LiveInWindow(maint.window)) <= LOAD_LIMIT) =>
        \A r \in LiveInWindow(maint.window) :
            /\ CacheHas(cache[maint.proc], CheckKey(r))
            /\ CacheGet(cache[maint.proc], CheckKey(r)) = r.seen_at

\* the same with the records of an empty task id or seq left aside
RehydratesNonEmptyIds ==
    (Rehydrated /\ Cardinality(LiveInWindow(maint.window)) <= LOAD_LIMIT) =>
        \A r \in LiveInWindow(maint.window) :
            (r.task_id # "" /\ r.seq # "") =>
                /\ CacheHas(cache[maint.proc], CheckKey(r))
                /\ CacheGet(cache[maint.proc], CheckKey(r)) = r.seen_at

\* a second loadStartupDedupGuard right after the first leaves the in-memory
\* cache unchanged
RehydrationIdempotent ==
    [][(Rehydrated /\ maint'.fn = "loadStartupDedupGuard"
                   /\ maint'.proc = maint.proc) => cache' = cache]_vars

\* C16 (maintenance failures are non-fatal): with the store unavailable (no
\* adapter registered, or the query rejecting) loadStartupDedupGuard resolves
\* and leaves the in-memory cache as it was, and pruneExpiredDedup resolves
\* with 0; neither rejects.
C16_MaintenanceNonFatal ==
    [][(maint'.fn # "none" /\ maint'.path # "ok") =>
          /\ maint'.outcome = "resolved"
          /\ cache' = cache
          /\ maint'.fn = "pruneExpiredDedup" => maint'.value = 0]_vars

\* the same for a store whose adapter is registered and whose query rejects
QueryFailureNonFatal ==
    [][(maint'.fn # "none" /\ maint'.path = "catch") =>
          /\ maint'.outcome = "resolved"
          /\ cache' = cache /\ db' = db
          /\ maint'.fn = "pruneExpiredDedup" => maint'.value = 0]_vars
(***************************************************************************)
(* Properties of the conflict path                                         *)
(***************************************************************************)
\* the step is the return of call c on the durable-tier conflict path
ConflictReturn(c) ==
    /\ c \in calls /\ c \notin calls'
    /\ Len(log') = Len(log) + 1
    /\ log'[Len(log')].tier = "db"
    /\ log'[Len(log')].res = "dup"

\* C20 (conflict warms with the record's seenAt): when the INSERT is rejected
\* because a record already exists, checkAndRecordDedup returns duplicate and
\* sets the in-memory entry of the key to the seen_at of that record.
C20_ConflictWarm ==
    [][\A c \in calls :
          ConflictReturn(c) =>
              \E r \in db :
                 /\ RouteHash(r) = <<c.from, c.to, c.meta.eventHash>>
                 /\ CacheHas(cache'[c.proc], buildDedupKey(c.from, c.to, c.meta))
                 /\ CacheGet(cache'[c.proc], buildDedupKey(c.from, c.to, c.meta))
                       = r.seen_at]_vars
(***************************************************************************)
(* Properties of patch.js                                                  *)
(***************************************************************************)
\* C17 (patch.js is idempotent): a run of the script on a file that the
\* previous run patched and wrote reports every patch as already applied and
\* writes a file identical to the one it found.
C17_PatchIdempotent ==
    \A n \in 2..Len(patcher.runs) :
        ~patcher.runs[n - 1].exited =>
            /\ ~patcher.runs[n].exited
            /\ \A k \in DOMAIN Patches :
                  patcher.runs[n].reports[k] = "already applied, skipping"
            /\ patcher.runs[n].after = patcher.runs[n].before
(***************************************************************************)
(* Properties of message delivery                                          *)
(***************************************************************************)
\* the caller of delivery c received an explicit refusal for a stopped target
RefusedAsStopped(c) ==
    \/ c.result = <<"resolved", "Error: agent is stopped - message not delivered",
                    NameOf(c.to)>>
    \/ c.result = <<"rejected", "is stopped and cannot be restarted automatically",
                    c.to>>

\* C13 (explicit refusal for stopped targets): a delivery, through the send
\* handler or through sendMessageToAgent, whose target is read as stopped
\* inserts no message, starts no agent, and its caller receives an explicit
\* refusal.
C13_StoppedRefused ==
    \A i \in DOMAIN sends :
        LET c == sends[i]
        IN  (c.pc = "done" /\ \E n \in DOMAIN c.read : c.read[n] = "stopped") =>
                /\ ~c.inserted
                /\ ~c.started
                /\ RefusedAsStopped(c)

\* the part of it that holds: nothing is inserted and no agent is started
StoppedNotDelivered ==
    \A i \in DOMAIN sends :
        LET c == sends[i]
        IN  (c.pc = "done" /\ \E n \in DOMAIN c.read : c.read[n] = "stopped") =>
                ~c.inserted /\ ~c.started

\* the step is the return of isDuplicateMessage in delivery i
DedupAnswered(i) == sends[i].pc = "dedup" /\ sends'[i].pc # "dedup"

\* a user message with the same words was stored for the agent within the
\* last 72 hours
DeliveredBefore(toAgentId, content) ==
    \E k \in DOMAIN messages :
        /\ messages[k].agent_id = toAgentId
        /\ messages[k].role = "user"
        /\ Words(messages[k].content) = Words(content)
        /\ messages[k].created_at >= now - DEDUP_TTL_MS

\* C18 (isDuplicateMessage): the call returns true whenever a user message
\* with the same whitespace-normalized content was delivered to the agent
\* within the last 72 hours, however many other messages the agent received
\* since, and false when there is none or when the query fails.
C18_IsDuplicateMessage ==
    [][\A i \in DOMAIN sends :
          DedupAnswered(i) =>
              (sends'[i].isDup <=>
                  (sends'[i].queryOk
                      /\ DeliveredBefore(sends[i].to, sends[i].content)))]_vars

\* the same as long as the agent has no more than 200 user messages in the
\* window
WithinLimitDetected ==
    [][\A i \in DOMAIN sends :
          (/\ DedupAnswered(i)
           /\ RowCount(RecentUserRows(sends[i].to, now - DEDUP_TTL_MS))
                 <= MSG_QUERY_LIMIT) =>
              (sends'[i].isDup <=>
                  (sends'[i].queryOk
                      /\ DeliveredBefore(sends[i].to, sends[i].content)))]_vars

\* deliveries i and j are for the same agent with the same words, and both
\* reached insertMessage within 72 hours of each other
BothInserted(i, j) ==
    /\ sends[i].to = sends[j].to
    /\ Words(sends[i].content) = Words(sends[j].content)
    /\ sends[i].inserted /\ sends[j].inserted
    /\ sends[j].insertedAt - sends[i].insertedAt <= DEDUP_TTL_MS
    /\ sends[i].insertedAt - sends[j].insertedAt <= DEDUP_TTL_MS

\* C19 (sendMessageToAgent, concurrent calls): of the calls for one agent
\* with contents equal after normalization, under any interleaving, at most
\* one within a 72-hour window reaches insertMessage.
C19_AtMostOneInsert ==
    \A i, j \in DOMAIN sends : BothInserted(i, j) => i = j
(***************************************************************************)
(* Properties of the two tiers together                                    *)
(***************************************************************************)
\* the in-memory key of a request
KeyOf(e) == buildDedupKey(e.from, e.to, e.meta)

\* the records of two requests conflict on the unique index
IndexConflict(e, f) ==
    RouteHash(DedupRow(e, e.nowMs)) = RouteHash(DedupRow(f, f.nowMs))

\* C21 (one identity for both tiers): two requests answered by the durable
\* tier have the same in-memory key exactly when their records conflict on
\* the uniqueness constraint of the table.
C21_SameIdentity ==
    \A a, b \in DOMAIN log :
        (log[a].tier = "db" /\ log[b].tier = "db")
        => (KeyOf(log[a]) = KeyOf(log[b]) <=> IndexConflict(log[a], log[b]))

\* two requests with one in-memory key conflict on the index
SameKeyConflicts ==
    \A a, b \in DOMAIN log :
        KeyOf(log[a]) = KeyOf(log[b]) => IndexConflict(log[a], log[b])

\* the durable tier holds, or has held, a record of the fingerprint of cache
\* entry e, seen no earlier than the entry says: a row of the table, the row
\* a finished call inserted (NOW() was its doneAt), or the row of a call cut
\* off by a restart, whose INSERT may have been executed
EverRecorded(e) ==
    \/ \E r \in db : CheckKey(r) = e.key /\ r.seen_at >= e.seenAt
    \/ \E a \in DOMAIN log :
          /\ KeyOf(log[a]) = e.key
          /\ \/ log[a].tier = "db" /\ log[a].res = "new"
                   /\ log[a].doneAt >= e.seenAt
             \/ log[a].res = "lost"

\* C23 (the fast tier is derived from the durable tier): every entry of an
\* in-memory cache is the fingerprint of a record that the durable tier holds
\* or has held, with a seenAt no older than the entry's.
C23_CacheDerived ==
    \A p \in AllProcs : \A n \in DOMAIN cache[p] : EverRecorded(cache[p][n])

\* with the store answering every INSERT and requests that differ in content
\* only, every fingerprint in a cache has a record in the table or had one
\* that a prune deleted
CacheDerivedWhenStoreAnswers ==
    \A p \in AllProcs : \A n \in DOMAIN cache[p] :
        \/ \E r \in db : CheckKey(r) = cache[p][n].key
        \/ \E a \in DOMAIN log :
              /\ KeyOf(log[a]) = cache[p][n].key
              /\ log[a].tier = "db" /\ log[a].res = "new"

(***************************************************************************)
(* Properties of the L1 hit path                                           *)
(***************************************************************************)
\* the step starts a checkAndRecordDedup call
CallStarts == Len(log') + Cardinality(calls') = Started + 1

\* the call that the step starts: suspended at its await, or returned already
StartedCall ==
    IF calls' # calls THEN CHOOSE c \in calls' : c \notin calls
    ELSE log'[Len(log')]

\* at the lookup of line 114, after the sweep of line 113, the key of call e
\* is in the cache of its process with nowMs - seenAt <= ttlMs
FoundAtLookup(e) ==
    LET swept == evictExpired(cache[e.proc], now)
    IN  /\ CacheHas(swept, KeyOf(e))
        /\ now - CacheGet(swept, KeyOf(e)) <= e.ttlMs

HitWithinDefaultTtl ==
    [][(CallStarts /\ FoundAtLookup(StartedCall)) =>
          now - CacheGet(cache[StartedCall.proc], KeyOf(StartedCall))
             <= ROUTING_DEDUP_TTL_MS]_vars

(***************************************************************************)
(* Properties of the durable table                                         *)
(***************************************************************************)
\* a step changes table message_dedup of persistent-dedup.ts only by adding
\* records of a (from, to, hash) that had none and by deleting expired ones
DedupTableAppendDelete ==
    /\ \A r \in db' \ db : \A q \in db : RouteHash(q) # RouteHash(r)
    /\ \A r \in db \ db' :
          /\ r.expires_at < now
          /\ \A q \in db' : RouteHash(q) # RouteHash(r)

\* the same for table message_dedup of the patched bundle, whose records
\* expire 72 hours after seen_at_ms
BundleTableAppendDelete ==
    /\ \A r \in bundle'.table \ bundle.table :
          \A q \in bundle.table : q.dedup_key # r.dedup_key
    /\ \A r \in bundle.table \ bundle'.table :
          /\ r.seen_at_ms < now - ROUTING_DEDUP_TTL_MS
          /\ \A q \in bundle'.table : q.dedup_key # r.dedup_key

\* C29 (durable records are never mutated): every step of a dedup operation
\* changes the durable dedup table only by inserting a new record or by
\* deleting an expired one; the seenAt and expiresAt of a record that stays
\* never change.
C29_AppendDeleteOnly ==
    [][DedupTableAppendDelete /\ BundleTableAppendDelete]_vars

\* persistent-dedup.ts alone never changes a record in place
DedupRecordsImmutable == [][DedupTableAppendDelete]_vars

(***************************************************************************)
(* Properties of the startup reconcile                                     *)
(***************************************************************************)
\* the status that the list given to safeReconcileOnStartup holds for an id
ListedStatuses(id) ==
    {recon.agents[n].status : n \in {m \in DOMAIN recon.agents :
                                        recon.agents[m].id = id}}

ReconcileCalls == {c \in coreCalls : c.fn \in {"updateAgentStatus", "insertActivity"}}

\* C27 (reconcile frame): safeReconcileOnStartup calls updateAgentStatus only
\* with the status idle and only for agents listed as thinking or executing;
\* agents listed as idle, error or stopped get no status update and no
\* activity record, and agents listed as idle or error are in neither reset
\* nor skipped.
C27_ReconcileFrame ==
    /\ \A c \in ReconcileCalls :
          /\ c.fn = "updateAgentStatus" => c.arg = "idle"
          /\ ListedStatuses(c.id) # {}
          /\ ListedStatuses(c.id) \subseteq {"thinking", "executing"}
    /\ \A n \in DOMAIN recon.agents :
          recon.agents[n].status \in {"idle", "error"} =>
             recon.agents[n].id \notin Range(recon.reset) \cup Range(recon.skipped)

\* a reconcile returned for a list with an agent to reset, which got its
\* update and its activity record, and an idle or error agent and a stopped
\* agent, which got neither
C27_Witness ==
    /\ recon.pc = "done"
    /\ \E c, d \in ReconcileCalls :
          c.fn = "updateAgentStatus" /\ d.fn = "insertActivity" /\ c.id = d.id
    /\ \E n \in DOMAIN recon.agents :
          /\ recon.agents[n].status \in {"idle", "error", "stopped"}
          /\ \A c \in ReconcileCalls : c.id # recon.agents[n].id

(***************************************************************************)
(* Properties of the patched scheduler                                     *)
(***************************************************************************)
\* the status the pool holds for an id
PoolStatuses(id) ==
    {sched.agents[n].status : n \in {m \in DOMAIN sched.agents :
                                        sched.agents[m].id = id}}

\* some agent of the pool that is not stopped has a role the task asks for
DispatchableMatch ==
    \E n \in DOMAIN sched.agents, k \in DOMAIN sched.roles :
        /\ sched.agents[n].role = sched.roles[k]
        /\ sched.agents[n].status # "stopped"

\* C28 (scheduler guards): patched pickAssignee never returns a stopped agent
\* for any task, role and pool, and returns undefined when only stopped
\* agents match; the patched restart resume sends no resume message to an
\* assignee that is stopped.
C28_SchedulerGuards ==
    /\ sched.pickDone =>
          /\ \A n \in DOMAIN sched.picked : sched.picked[n].status # "stopped"
          /\ ~DispatchableMatch => sched.picked = <<>>
    /\ sched.resumeDone =>
          \A n \in DOMAIN sched.resumes :
              "stopped" \notin PoolStatuses(sched.resumes[n])

\* pickAssignee passed over a stopped agent of the role asked for and returned
\* the agent after it, and the resume skipped a stopped assignee and sent to
\* another
C28_Witness ==
    /\ sched.pickDone /\ sched.picked # <<>>
    /\ \E n \in DOMAIN sched.agents :
          /\ sched.agents[n].status = "stopped"
          /\ sched.agents[n].role = sched.picked[1].role
          /\ sched.agents[n].role = sched.roles[1]
    /\ sched.resumeDone /\ sched.resumes # <<>>
    /\ \E k \in DOMAIN sched.tasks : PoolStatuses(sched.tasks[k]) = {"stopped"}

(***************************************************************************)
(* Properties of the in-memory cache at its capacity                       *)
(***************************************************************************)
\* C22 (bounded fast tier): after any sequence of checkAndRecordDedup and
\* loadStartupDedupGuard calls the in-memory cache holds at most
\* ROUTING_DEDUP_MAX_KEYS entries.
C22_BoundedCache == Size(lru.cache) <= ROUTING_DEDUP_MAX_KEYS

\* the sweep at the start of checkAndRecordDedup leaves at most
\* ROUTING_DEDUP_MAX_KEYS entries, and the call adds one
BoundedAfterSweep ==
    /\ \A k \in DOMAIN lru.sweeps :
          Size(lru.sweeps[k].after) <= ROUTING_DEDUP_MAX_KEYS
    /\ Size(lru.cache) <= LOAD_LIMIT + MaxCalls

\* the entries of a sweep's Map that are within the TTL at its nowMs
WithinTtl(sw) ==
    SelectSeq(sw.before,
              LAMBDA e : ~(sw.nowMs - e.seenAt > ROUTING_DEDUP_TTL_MS))

\* a is m without the keys inserted first: the entries of m from some entry
\* on, that entry with some or all of its keys
IsKeySuffix(a, m) ==
    \/ a = <<>>
    \/ \E j \in DOMAIN m :
          /\ Len(a) = Len(m) - j + 1
          /\ a[1].burst = m[j].burst /\ a[1].seenAt = m[j].seenAt
          /\ a[1].n >= 1 /\ a[1].n <= m[j].n
          /\ \A k \in 2..Len(a) : a[k] = m[j + k - 1]

CapacityEvicted(sw) ==
    LET mid == WithinTtl(sw)
        gone == Len(mid) - Len(sw.after)
    IN  {mid[j].seenAt : j \in 1..gone} \cup
        (IF sw.after # <<>> /\ sw.after[1].n < mid[gone + 1].n
         THEN {mid[gone + 1].seenAt} ELSE {})

\* C26 (capacity eviction keeps the most recent records): whenever
\* evictExpired removes an entry because the cache is over capacity, every
\* entry it retains has a seenAt at least as recent as the removed entry's.
C26_KeepsMostRecent ==
    \A k \in DOMAIN lru.sweeps :
        \A e \in CapacityEvicted(lru.sweeps[k]) :
            \A r \in DOMAIN lru.sweeps[k].after :
                lru.sweeps[k].after[r].seenAt >= e
====
